---------------------------- MODULE Spec2Model ----------------------------
(***************************************************************************)
(* A model of x399-hunter.                                                 *)
(*                                                                         *)
(*   scrapers/carousell.py  the scrape run: main_async drives, per query,  *)
(*                          scrape_playwright (primary) and, when that     *)
(*                          raises, scrape_curl_cffi (backup), and writes  *)
(*                          the accumulated batch.                         *)
(*   analytics/zscore.py    the analysis run: load_historical_data,        *)
(*                          calculate_zscore and analyze_deals.            *)
(*                                                                         *)
(* The two runs are separate invocations of separate programs, so each has *)
(* its own specification over its own variables: Spec (the scrape run),    *)
(* SpecE (the extraction loop of scrape_playwright alone), and the         *)
(* specifications of the analysis further down.                            *)
(***************************************************************************)
EXTENDS Integers, Sequences, FiniteSets, TLC

(***************************************************************************)
(* Bounds of the model.                                                    *)
(***************************************************************************)
\* the longest configured query list (config['carousell']['queries'])
MaxQueries == 2
\* the most listing cards one results page holds
MaxCards == 2
\* the longest list of items calculate_zscore is called with on its own
MaxItems == 5
\* the most snapshot files under the data root
MaxFiles == 2
\* the most listings in all the snapshot files together
MaxRecords == 4

VARIABLES
    \* ---- the scrape run (scrapers/carousell.py) ----
    nq,           \* len(config['carousell']['queries'])
    curlAvailable,\* CURL_CFFI_AVAILABLE, fixed at import
    maxResults,   \* scrape_playwright's parameter max_results
    qi,           \* index of the query the for loop of main_async is at
    pc,           \* the statement the run is at
    open,         \* the browser sessions launched and not yet closed
    launched,     \* this call: p.chromium.launch returned a browser
    closeCalls,   \* browser.close() calls issued on the session of this call
    results,      \* scrape_playwright's local `results`
    pending,      \* how scrape_playwright is leaving: "none", "return", "raise"
    cards,        \* the cards page.query_selector_all returned
    ci,           \* index of the card the extraction loop is at
    allResults,   \* main_async's all_results
    primOutcome,  \* per query: "none", "running", "returned", "raised"
    waitTimedOut, \* this call: page.wait_for_selector raised
    marker,       \* this call: what the content read after the timeout gave
    backupCalls,  \* per query: calls of scrape_curl_cffi
    backupFetch,  \* what the fetch of the latest backup call met
    backupValue,  \* what the latest backup call returned
    attempts,     \* the queries scrape_playwright was called for, in call order
    written,      \* how many times the batch was written
    \* ---- calculate_zscore called on its own (analytics/zscore.py) ----
    zpc,          \* "idle", "call", "returned"
    zItems,       \* the argument items
    zPrice,       \* the argument current_price
    zResult,      \* the value returned
    \* ---- the analysis run (analytics/zscore.py) ----
    anpc,         \* "idle", "setup" (the data root is being filled), "sources",
                  \* "done", "raised" (an exception left analyze_deals)
    root,         \* the data root: per path, the file there
    allItems,     \* analyze_deals' `historical`
    si,           \* index of the source the loop of analyze_deals is at
    latest,       \* per source: the path of latest_file, 0 when there is none
    scored,       \* the calls of calculate_zscore made, in order
    deals         \* analyze_deals' `deals`

scrapeVars == << nq, curlAvailable, maxResults, qi, pc, open, launched, closeCalls, results, pending,
                 cards, ci, allResults, primOutcome, waitTimedOut, marker,
                 backupCalls, backupFetch, backupValue, attempts,
                 written >>

zVars == << zpc, zItems, zPrice, zResult >>
anVars == << anpc, root, allItems, si, latest, scored, deals >>

\* faulty variant: the slice of line 96 is missing, every card is parsed
Min_Uncapped(a, b) == a

Min(a, b) == IF a <= b THEN a ELSE b

\* all sequences over S of length at most n
RECURSIVE SeqsUpTo(_, _)
SeqsUpTo(S, n) ==
    IF n = 0 THEN { << >> }
    ELSE LET shorter == SeqsUpTo(S, n - 1)
         IN  shorter \cup { Append(s, x) : s \in { t \in shorter : Len(t) = n - 1 }, x \in S }

(***************************************************************************)
(* scrape_playwright, the extraction of one card (lines 97-132).           *)
(*   "full"      title, price, link and seller elements present            *)
(*   "noseller"  title, price and link present, no seller element          *)
(*   "missing"   title, price or link element absent (line 104: continue)  *)
(*   "raises"    a query or a read on the card raises (line 131: continue) *)
(***************************************************************************)
CardKinds == { "full", "noseller", "missing", "raises" }

\* max_results, the default of scrape_playwright's parameter; main_async
\* passes no other value
MaxResultsDefault == 50

\* the listing appended for card number i of query q (lines 122-130)
Listing(q, i, kind) ==
    [ query  |-> q,
      card   |-> i,
      seller |-> IF kind = "noseller" THEN "Unknown" ELSE "named",
      source |-> "carousell",
      method |-> "playwright" ]

\* one pass of the loop body on a card: what `results` becomes
ExtractCard(res, q, i, kind) ==
    IF kind \in { "missing", "raises" } THEN res
    ELSE Append(res, Listing(q, i, kind))

(***************************************************************************)
(* scrape_curl_cffi (lines 142-196) as a function of what it meets.        *)
(* A fetch is an exception (crequests.get raised, a timeout included) or a *)
(* response with a status and a body; the body is abstracted to the marker *)
(* the code looks for in it.                                               *)
(***************************************************************************)
Bodies == { "access_denied", "cloudflare", "page" }
Statuses == { 200, 403, 500 }
NoFetch == [ kind |-> "none", status |-> 0, body |-> "none" ]
FetchException == [ kind |-> "exception", status |-> 0, body |-> "none" ]
Fetches == { FetchException }
           \cup [ kind : { "response" }, status : Statuses, body : Bodies ]

\* faulty variant: the try of line 158 is missing, a fetch exception leaves
\* the function
ScrapeCurlCffi_Propagates(available, fetch) ==
    IF available /\ fetch.kind = "exception"
    THEN [ raised |-> TRUE, value |-> << >> ]
    ELSE [ raised |-> FALSE, value |-> << >> ]

\* faulty variant: the parsing announced at lines 183-192 is there, a
\* fetched page yields a listing
ScrapeCurlCffi_Parses(available, fetch) ==
    IF available /\ fetch.kind = "response" /\ fetch.status = 200
       /\ fetch.body = "page"
    THEN [ raised |-> FALSE,
           value |-> << [ query |-> 0, card |-> 1, seller |-> "named",
                          source |-> "carousell", method |-> "curl_cffi" ] >> ]
    ELSE [ raised |-> FALSE, value |-> << >> ]

\* the outcome of the call: raised tells whether an exception left the
\* function, value is the sequence returned
ScrapeCurlCffi(available, fetch) ==
    IF ~available THEN [ raised |-> FALSE, value |-> << >> ]             \* 149-151
    ELSE IF fetch.kind = "exception" THEN [ raised |-> FALSE, value |-> << >> ] \* 194-196
    ELSE IF fetch.status # 200 THEN [ raised |-> FALSE, value |-> << >> ]  \* 167-169
    ELSE IF fetch.body \in { "access_denied", "cloudflare" }
         THEN [ raised |-> FALSE, value |-> << >> ]                        \* 179-181
    ELSE [ raised |-> FALSE, value |-> << >> ]                             \* 192

(***************************************************************************)
(* analytics/zscore.py: numbers.                                           *)
(*                                                                         *)
(* Prices are integers.  A score is kept exactly, as sgn * sqrt(num/den)   *)
(* with num/den in lowest terms, so that two scores are equal as records   *)
(* exactly when they are equal as numbers; the code computes the same      *)
(* quantity in floating point (statistics.mean and statistics.stdev work   *)
(* in exact fractions and round once at the end).                          *)
(***************************************************************************)
Abs(x) == IF x < 0 THEN -x ELSE x
Sign(x) == IF x < 0 THEN -1 ELSE IF x = 0 THEN 0 ELSE 1

RECURSIVE GCD(_, _)
GCD(a, b) == IF b = 0 THEN a ELSE GCD(b, a % b)

\* sgn * sqrt(num/den), in lowest terms
Score(sgn, num, den) ==
    IF sgn = 0 \/ num = 0 THEN [ sgn |-> 0, num |-> 0, den |-> 1 ]
    ELSE LET g == GCD(num, den)
         IN  [ sgn |-> sgn, num |-> num \div g, den |-> den \div g ]

\* the float 0.0
Zero == Score(0, 0, 1)

\* a < b on scores
ZLess(a, b) ==
    IF a.sgn # b.sgn THEN a.sgn < b.sgn
    ELSE IF a.sgn = 1 THEN a.num * b.den < b.num * a.den
    ELSE IF a.sgn = -1 THEN a.num * b.den > b.num * a.den
    ELSE FALSE

\* the largest r with r * r <= n, by bisection of lo .. hi - 1
RECURSIVE ISqrtIn(_, _, _)
ISqrtIn(n, lo, hi) ==
    IF hi - lo <= 1 THEN lo
    ELSE LET mid == (lo + hi) \div 2
         IN  IF mid * mid <= n THEN ISqrtIn(n, mid, hi) ELSE ISqrtIn(n, lo, mid)
ISqrt(n) == ISqrtIn(n, 0, 46341)

\* sqrt(num/den) in hundredths, rounded to the nearest: the k with
\* (2k-1)^2 <= 4 * 10^4 * num/den < (2k+1)^2
RootHundredths(num, den) == (ISqrt((40000 * num) \div den) + 1) \div 2

\* round(z, 2) of line 93, in hundredths
Round2(z) == z.sgn * RootHundredths(z.num, z.den)

RECURSIVE SumSeq(_)
SumSeq(s) == IF s = << >> THEN 0 ELSE Head(s) + SumSeq(Tail(s))

RECURSIVE SumSquares(_)
SumSquares(s) == IF s = << >> THEN 0 ELSE Head(s) * Head(s) + SumSquares(Tail(s))

(***************************************************************************)
(* calculate_zscore (lines 39-54).  An item is a listing record; has_price *)
(* tells whether it has the key 'price_sgd'.                               *)
(***************************************************************************)
Item(src, p) == [ source |-> src, has_price |-> TRUE, price_sgd |-> p ]
NoPriceItem(src) == [ source |-> src, has_price |-> FALSE, price_sgd |-> 0 ]

\* line 43: the prices of the items that have a positive one
RECURSIVE PositivePrices(_)
PositivePrices(items) ==
    IF items = << >> THEN << >>
    ELSE LET it == Head(items)
             rest == PositivePrices(Tail(items))
         IN  IF it.has_price /\ it.price_sgd > 0
             THEN << it.price_sgd >> \o rest
             ELSE rest

\* faulty variant: the samples are counted after the filter of line 43
TooFew_Usable(items) == Len(PositivePrices(items)) < 3

\* line 40: the guard on the number of samples
TooFew(items) == Len(items) < 3

\* line 48, statistics.mean, as the fraction num/den
Mean(prices) == [ num |-> SumSeq(prices), den |-> Len(prices) ]

\* faulty variant: the population variance (statistics.pstdev)
SigmaSquared_Population(prices) ==
    LET n == Len(prices)
        d == n * SumSquares(prices) - SumSeq(prices) * SumSeq(prices)
    IN  IF n > 1 THEN [ num |-> d, den |-> n * n ]
        ELSE [ num |-> 1, den |-> 1 ]

\* line 49, the square of sigma as the fraction num/den: the sample variance
\* for two prices or more, and 1.0 otherwise
SigmaSquared(prices) ==
    LET n == Len(prices)
        d == n * SumSquares(prices) - SumSeq(prices) * SumSeq(prices)
    IN  IF n > 1 THEN [ num |-> d, den |-> n * (n - 1) ]
        ELSE [ num |-> 1, den |-> 1 ]

CalculateZscore(items, current_price) ==
    IF TooFew(items) THEN Zero                                   \* 40-41
    ELSE LET prices == PositivePrices(items)                     \* 43
         IN  IF prices = << >> THEN Zero                         \* 45-46
             ELSE LET mu == Mean(prices)                         \* 48
                      s2 == SigmaSquared(prices)                 \* 49
                      \* current_price - mu = diff / mu.den
                      diff == current_price * mu.den - mu.num
                  IN  IF s2.num = 0 THEN Zero                    \* 51-52
                      \* 54: ((diff/mu.den) ^ 2) / s2
                      ELSE Score(Sign(diff), diff * diff * s2.den,
                                 mu.den * mu.den * s2.num)

\* z_threshold, the default of analyze_deals: -1.5
DefaultThreshold == Score(-1, 9, 4)

\* faulty variant: a score equal to the threshold is flagged too
Flagged_Inclusive(z, threshold) == ZLess(z, threshold) \/ z = threshold

\* line 92: the item is flagged
Flagged(z, threshold) == ZLess(z, threshold)

(***************************************************************************)
(* calculate_zscore called on its own: every list of at most MaxItems      *)
(* items over ItemPrices (with or without the key), every current price of *)
(* CurrentPrices.                                                          *)
(***************************************************************************)
ItemPrices == { -5, 0, 90, 95, 100, 105, 110 }
CurrentPrices == { 50, 80 }
ZItemDomain == { Item("carousell", p) : p \in ItemPrices }
               \cup { NoPriceItem("carousell") }

ZIdle ==
    /\ zpc = "idle"
    /\ zItems = << >>
    /\ zPrice = 0
    /\ zResult = Zero

ZInit ==
    /\ zpc = "call"
    /\ zItems \in SeqsUpTo(ZItemDomain, MaxItems)
    /\ zPrice \in CurrentPrices
    /\ zResult = Zero

ZCall ==
    /\ zpc = "call"
    /\ zResult' = CalculateZscore(zItems, zPrice)
    /\ zpc' = "returned"
    /\ UNCHANGED << scrapeVars, anVars, zItems, zPrice >>

(***************************************************************************)
(* The data root.  A path is a directory and a file stem; a stem either    *)
(* parses as %Y-%m-%d_%H-%M, and then day is its time in days from now     *)
(* (negative: in the past), or does not.  Paths is the list of the paths   *)
(* of the model, in the order rglob yields them.                           *)
(***************************************************************************)
Stamp(d) == [ parses |-> TRUE, day |-> d ]
BadStem == [ parses |-> FALSE, day |-> 0 ]
Path(dir, stem) == [ dir |-> dir, stem |-> stem ]

Paths ==
    << Path("carousell", Stamp(-40)),
       Path("carousell", Stamp(-10)),
       Path("carousell", Stamp(-1)),
       Path("carousell", BadStem),
       Path("ebay", Stamp(5)) >>
PathIds == 1 .. Len(Paths)

\* --lookback-days, the default of line 102
LookbackDays == 30

\* the content of a file: absent, text json.load rejects, or a list of items
Absent == [ kind |-> "absent", items |-> << >> ]
Garbage == [ kind |-> "garbage", items |-> << >> ]
ListOf(items) == [ kind |-> "list", items |-> items ]

\* a JSON value that is no listing record: a string (without 'price_sgd' in
\* it), as a key of a JSON object or an element of a JSON list
NotARecord == [ source |-> "not a record", has_price |-> FALSE, price_sgd |-> 0 ]
\* well-formed JSON that is no list: a number, true, false or null, and an
\* object, of which Python's iteration yields the keys
Scalar == [ kind |-> "scalar", items |-> << >> ]
ObjectOf(keys) == [ kind |-> "object", items |-> keys ]

\* the prices of the listings in the snapshots
SnapshotPrices == { 0, 60, 100 }
SnapshotItems(dir) == { Item(dir, p) : p \in SnapshotPrices }
\* two more snapshots: three listings at 100, 120 and 110, and one listing
\* without a price
Snapshot3(dir) == << Item(dir, 100), Item(dir, 120), Item(dir, 110) >>
SnapshotNoPrice(dir) == << NoPriceItem(dir) >>

\* the files that may lie under directory dir, of at most n listings
Snapshots(dir, n) ==
    { Garbage }
    \cup { ListOf(its) : its \in SeqsUpTo(SnapshotItems(dir), n) }
    \cup (IF n >= 3 THEN { ListOf(Snapshot3(dir)) } ELSE { })
    \cup (IF n >= 1 THEN { ListOf(SnapshotNoPrice(dir)) } ELSE { })
    \cup { Scalar }
    \cup (IF n >= 1 THEN { ObjectOf(<< NotARecord >>), ListOf(<< NotARecord >>) }
          ELSE { })

Existing(r) == { i \in PathIds : r[i].kind # "absent" }

RECURSIVE RecordCount(_, _)
RecordCount(r, i) ==
    IF i = 0 THEN 0 ELSE Len(r[i].items) + RecordCount(r, i - 1)

(***************************************************************************)
(* load_historical_data (lines 12-37): the loop over the files, from path  *)
(* number i on.  cutoff is now - lookback_days; a stem that does not parse *)
(* and a content json.load rejects raise inside the try (lines 25, 31) and *)
(* the except of line 33 goes on to the next file.                         *)
(***************************************************************************)
\* faulty variant: the stem is not parsed, every file is opened
Contribution_StemIgnored(file, stem, lookback) ==
    IF file.kind \in { "garbage", "scalar" } THEN << >>
    ELSE file.items

\* lines 22-35, one pass of the loop: what the file with this stem adds to
\* all_items.  all_items.extend raises TypeError on a number, true, false
\* or null (caught at line 33), takes the elements of a list whatever they
\* are, and takes the keys of an object.
Contribution(file, stem, lookback) ==
    IF ~stem.parses THEN << >>                         \* 25, 33-35
    ELSE IF stem.day < -lookback THEN << >>            \* 27-28
    ELSE IF file.kind = "garbage" THEN << >>           \* 31, 33-35
    ELSE IF file.kind = "scalar" THEN << >>            \* 32, 33-35
    ELSE file.items                                    \* 32

RECURSIVE LoadFrom(_, _, _)
LoadFrom(r, lookback, i) ==
    IF i > Len(Paths) THEN << >>
    ELSE LET rest == LoadFrom(r, lookback, i + 1)
         IN  IF r[i].kind = "absent" THEN rest
             ELSE Contribution(r[i], Paths[i].stem, lookback) \o rest

LoadHistoricalData(r, lookback) == LoadFrom(r, lookback, 1)

(***************************************************************************)
(* analyze_deals (lines 56-97).                                            *)
(***************************************************************************)
Sources == << "carousell", "ebay", "slickdeals" >>

\* line 88: the history of one source
SourceHistory(historical, source) ==
    SelectSeq(historical, LAMBDA h : h.source = source)

\* line 80: the item is passed over
Skipped(item) == ~item.has_price \/ item.price_sgd <= 0

\* lines 79-90: the calls of calculate_zscore made for the items, in order
RECURSIVE ScoreItems(_, _, _)
ScoreItems(items, historical, source) ==
    IF items = << >> THEN << >>
    ELSE LET item == Head(items)
             rest == ScoreItems(Tail(items), historical, source)
             hist == SourceHistory(historical, source)
         IN  IF Skipped(item) THEN rest
             ELSE << [ item |-> item, history |-> hist,
                       z |-> CalculateZscore(hist, item.price_sgd) ] >> \o rest

\* lines 92-95: the deals among the scored items; z_score is in hundredths
RECURSIVE DealsOf(_, _)
DealsOf(calls, threshold) ==
    IF calls = << >> THEN << >>
    ELSE LET c == Head(calls)
             rest == DealsOf(Tail(calls), threshold)
         IN  IF Flagged(c.z, threshold)
             THEN << [ item |-> c.item, z_score |-> Round2(c.z),
                       flag |-> "GREAT DEAL" ] >> \o rest
             ELSE rest

AnIdle ==
    /\ anpc = "idle"
    /\ root = [ i \in PathIds |-> Absent ]
    /\ allItems = << >>
    /\ si = 1
    /\ latest = [ k \in 1 .. Len(Sources) |-> 0 ]
    /\ scored = << >>
    /\ deals = << >>

AnInit ==
    /\ anpc = "setup"
    /\ root = [ i \in PathIds |-> Absent ]
    /\ allItems = << >>
    /\ si = 1
    /\ latest = [ k \in 1 .. Len(Sources) |-> 0 ]
    /\ scored = << >>
    /\ deals = << >>

\* before the analysis: a scrape run (or anything else) leaves a file under
\* the data root
WriteSnapshot ==
    /\ anpc = "setup"
    /\ Cardinality(Existing(root)) < MaxFiles
    /\ \E i \in PathIds \ Existing(root) :
         \E c \in Snapshots(Paths[i].dir,
                            MaxRecords - RecordCount(root, Len(Paths))) :
            root' = [ root EXCEPT ![i] = c ]
    /\ UNCHANGED << scrapeVars, zVars, anpc, allItems, si, latest, scored, deals >>

\* line 57: analyze_deals starts, historical = load_historical_data(...)
LoadHistorical ==
    /\ anpc = "setup"
    /\ allItems' = LoadHistoricalData(root, LookbackDays)
    /\ anpc' = "sources"
    /\ UNCHANGED << scrapeVars, zVars, root, si, latest, scored, deals >>

\* lines 79-90 raise, and nothing catches: the loop of line 79 over a
\* number, true, false or null (TypeError), and h.get of line 88, run for
\* the first listing that is scored, on a member of historical that is no
\* record (AttributeError)
CurrentRaises(file, historical) ==
    \/ file.kind = "scalar"
    \/ /\ \E k \in 1 .. Len(file.items) : ~Skipped(file.items[k])
       /\ \E k \in 1 .. Len(historical) : historical[k] = NotARecord

\* lines 63-95: one pass of `for source in sources`.  Any file of the
\* directory may be the one modified last.  An exception leaves
\* analyze_deals: anpc "raised".
AnalyzeSource ==
    /\ anpc = "sources"
    /\ si <= Len(Sources)
    /\ LET source == Sources[si]
           files == { i \in Existing(root) : Paths[i].dir = source }
       IN  IF files = { }
           THEN /\ si' = si + 1                                    \* 65-70
                /\ UNCHANGED << anpc, latest, scored, deals >>
           ELSE \E f \in files :                                   \* 72
                  /\ latest' = [ latest EXCEPT ![si] = f ]
                  /\ IF root[f].kind = "garbage"
                     THEN /\ si' = si + 1                          \* 76-77
                          /\ UNCHANGED << anpc, scored, deals >>
                     ELSE IF CurrentRaises(root[f], allItems)
                     THEN /\ anpc' = "raised"
                          /\ UNCHANGED << si, scored, deals >>
                     ELSE LET calls == ScoreItems(root[f].items, allItems, source)
                          IN  /\ scored' = scored \o calls
                              /\ deals' = deals \o DealsOf(calls, DefaultThreshold)
                              /\ si' = si + 1
                              /\ anpc' = anpc
    /\ UNCHANGED << scrapeVars, zVars, root, allItems >>

\* line 97: return deals
AnalyzeReturn ==
    /\ anpc = "sources"
    /\ si > Len(Sources)
    /\ anpc' = "done"
    /\ UNCHANGED << scrapeVars, zVars, root, allItems, si, latest, scored, deals >>

(***************************************************************************)
(* The scrape run.                                                         *)
(***************************************************************************)
Queries == 1 .. nq

ScrapeInit ==
    /\ nq \in 0 .. MaxQueries
    /\ curlAvailable \in BOOLEAN
    /\ maxResults = MaxResultsDefault
    /\ qi = 1
    /\ pc = "for"
    /\ open = {}
    /\ launched = FALSE
    /\ closeCalls = 0
    /\ results = << >>
    /\ pending = "none"
    /\ cards = << >>
    /\ ci = 1
    /\ allResults = << >>
    /\ primOutcome = [ q \in 1 .. nq |-> "none" ]
    /\ waitTimedOut = FALSE
    /\ marker = "unread"
    /\ backupCalls = [ q \in 1 .. nq |-> 0 ]
    /\ backupFetch = NoFetch
    /\ backupValue = << >>
    /\ attempts = << >>
    /\ written = 0

\* the variables by owner
config == << nq, curlAvailable, maxResults >>
locals == << launched, results, pending, cards, ci, waitTimedOut, marker >>
orch   == << qi, allResults, primOutcome, backupCalls, backupFetch, backupValue,
             attempts, written >>

\* browser.close() on the session of query q
BrowserClose(q) ==
    /\ open' = open \ { q }
    /\ closeCalls' = closeCalls + 1

\* faulty variant: the browser is launched outside any scope that stops it
DriverStop_Leaks(q) == open

\* leaving `async with async_playwright()`: the Playwright driver stops, and
\* with it whatever browser it launched for this call
DriverStop(q) == open \ { q }

\* main_async line 214: the next query; line 217 calls scrape_playwright,
\* whose locals start afresh (line 52)
ForNext ==
    /\ pc = "for"
    /\ qi <= nq
    /\ pc' = "launch"
    /\ results' = << >>
    /\ pending' = "none"
    /\ cards' = << >>
    /\ ci' = 1
    /\ waitTimedOut' = FALSE
    /\ marker' = "unread"
    /\ closeCalls' = 0
    /\ launched' = FALSE
    /\ primOutcome' = [ primOutcome EXCEPT ![qi] = "running" ]
    /\ attempts' = Append(attempts, qi)
    /\ UNCHANGED << zVars, anVars, config, open, qi, allResults, backupCalls, backupFetch,
                    backupValue, written >>

\* main_async line 214: the loop is over
ForEnd ==
    /\ pc = "for"
    /\ qi > nq
    /\ pc' = "save"
    /\ UNCHANGED << zVars, anVars, config, open, closeCalls, locals, orch >>

\* line 60: p.chromium.launch
Launch ==
    /\ pc = "launch"
    /\ \E ok \in BOOLEAN :
         IF ok THEN /\ open' = open \cup { qi }
                    /\ launched' = TRUE
                    /\ pc' = "new_context"
                    /\ pending' = pending
               ELSE /\ open' = open
                    /\ launched' = launched
                    /\ pc' = "pw_exit"
                    /\ pending' = "raise"
    /\ UNCHANGED << zVars, anVars, config, closeCalls, results, cards, ci, waitTimedOut, marker,
                    orch >>

\* lines 63 and 68: browser.new_context, context.new_page; both stand before
\* the try of line 70, so an exception leaves through the async with alone
NewContext ==
    /\ pc = "new_context"
    /\ \E ok \in BOOLEAN :
         IF ok THEN pc' = "new_page" /\ pending' = pending
               ELSE pc' = "pw_exit" /\ pending' = "raise"
    /\ UNCHANGED << zVars, anVars, config, open, launched, closeCalls, results, cards, ci, waitTimedOut,
                    marker, orch >>

NewPage ==
    /\ pc = "new_page"
    /\ \E ok \in BOOLEAN :
         IF ok THEN pc' = "route" /\ pending' = pending
               ELSE pc' = "pw_exit" /\ pending' = "raise"
    /\ UNCHANGED << zVars, anVars, config, open, launched, closeCalls, results, cards, ci, waitTimedOut,
                    marker, orch >>

\* lines 74 and 76, inside the try: an exception goes through the except of
\* line 134, which re-raises, to the finally of line 137
Route ==
    /\ pc = "route"
    /\ \E ok \in BOOLEAN :
         IF ok THEN pc' = "goto" /\ pending' = pending
               ELSE pc' = "finally" /\ pending' = "raise"
    /\ UNCHANGED << zVars, anVars, config, open, launched, closeCalls, results, cards, ci, waitTimedOut,
                    marker, orch >>

Goto ==
    /\ pc = "goto"
    /\ \E ok \in BOOLEAN :
         IF ok THEN pc' = "wait" /\ pending' = pending
               ELSE pc' = "finally" /\ pending' = "raise"
    /\ UNCHANGED << zVars, anVars, config, open, launched, closeCalls, results, cards, ci, waitTimedOut,
                    marker, orch >>

\* lines 79-81: page.wait_for_selector; the bare except takes every exception
WaitForSelector ==
    /\ pc = "wait"
    /\ \E ok \in BOOLEAN :
         IF ok THEN pc' = "query_all" /\ waitTimedOut' = waitTimedOut
               ELSE pc' = "content" /\ waitTimedOut' = TRUE
    /\ UNCHANGED << zVars, anVars, config, open, launched, closeCalls, results, pending, cards, ci, marker,
                    orch >>

\* faulty variant: the empty-state check of line 85 is missing, every
\* timeout is a failure
AfterTimeout_AlwaysRaises(m) == [ pc |-> "finally", pending |-> "raise" ]

\* what lines 84-90 do with the outcome m of reading the page:
\*   "present"   the content holds "No results found": close, return []
\*   "absent"    it does not: raise Exception("Selector timeout ...")
\*   "readfail"  page.content() itself raised
AfterTimeout(m) ==
    IF m = "present" THEN [ pc |-> "close_early", pending |-> "none" ]
    ELSE [ pc |-> "finally", pending |-> "raise" ]

Content ==
    /\ pc = "content"
    /\ \E m \in { "present", "absent", "readfail" } :
         /\ marker' = m
         /\ pc' = AfterTimeout(m).pc
         /\ pending' = AfterTimeout(m).pending
    /\ UNCHANGED << zVars, anVars, config, open, launched, closeCalls, results, cards, ci, waitTimedOut,
                    orch >>

\* lines 87-88: await browser.close(); return []
CloseEarly ==
    /\ pc = "close_early"
    /\ BrowserClose(qi)
    /\ results' = << >>
    /\ pending' = "return"
    /\ pc' = "finally"
    /\ UNCHANGED << zVars, anVars, config, launched, cards, ci, waitTimedOut, marker, orch >>

\* line 93: page.query_selector_all
QueryAll ==
    /\ pc = "query_all"
    /\ \/ /\ \E cs \in SeqsUpTo(CardKinds, MaxCards) : cards' = cs
          /\ pc' = "cards"
          /\ pending' = pending
       \/ /\ pc' = "finally"
          /\ pending' = "raise"
          /\ cards' = cards
    /\ UNCHANGED << zVars, anVars, config, open, launched, closeCalls, results, ci, waitTimedOut, marker,
                    orch >>

\* lines 96-132: one pass of `for card in cards[:max_results]`
CardStep ==
    /\ pc = "cards"
    /\ ci <= Min(Len(cards), maxResults)
    /\ results' = ExtractCard(results, qi, ci, cards[ci])
    /\ ci' = ci + 1
    /\ UNCHANGED << zVars, anVars, config, pc, open, launched, closeCalls, pending, cards,
                    waitTimedOut, marker, orch >>

\* the loop is over: on to `return results` of line 140, through the finally
CardsDone ==
    /\ pc = "cards"
    /\ ci > Min(Len(cards), maxResults)
    /\ pending' = "return"
    /\ pc' = "finally"
    /\ UNCHANGED << zVars, anVars, config, open, launched, closeCalls, results, cards, ci, waitTimedOut,
                    marker, orch >>

\* lines 137-138: finally: await browser.close()
Finally ==
    /\ pc = "finally"
    /\ BrowserClose(qi)
    /\ pc' = "pw_exit"
    /\ UNCHANGED << zVars, anVars, config, locals, orch >>

\* faulty variant: an empty result of the primary engages the backup too
AfterPrimary_EmptyIsFailure(how, res) ==
    IF how = "raise" \/ res = << >> THEN "backup" ELSE "extend"

\* main_async lines 215-219, the try around the primary call: where control
\* goes when scrape_playwright leaves by `how` with the sequence res
AfterPrimary(how, res) ==
    IF how = "raise" THEN "backup" ELSE "extend"

\* the end of the async with of line 54; control is back in main_async, at
\* line 218 after a return and in the except of line 219 after an exception
PwExit ==
    /\ pc = "pw_exit"
    /\ open' = DriverStop(qi)
    /\ primOutcome' = [ primOutcome EXCEPT
                          ![qi] = IF pending = "raise" THEN "raised" ELSE "returned" ]
    /\ pc' = AfterPrimary(pending, results)
    /\ UNCHANGED << zVars, anVars, config, closeCalls, locals, qi, allResults, backupCalls,
                    backupFetch, backupValue, attempts, written >>

\* faulty variant: the results of the query are put before the batch
Extend_Prepends ==
    /\ pc = "extend"
    /\ allResults' = results \o allResults
    /\ qi' = qi + 1
    /\ pc' = "for"
    /\ UNCHANGED << zVars, anVars, config, open, closeCalls, locals, primOutcome, backupCalls,
                    backupFetch, backupValue, attempts, written >>

\* line 218: all_results.extend(results)
Extend ==
    /\ pc = "extend"
    /\ allResults' = allResults \o results
    /\ qi' = qi + 1
    /\ pc' = "for"
    /\ UNCHANGED << zVars, anVars, config, open, closeCalls, locals, primOutcome, backupCalls,
                    backupFetch, backupValue, attempts, written >>

\* faulty variant: all_results is assigned the backup's value, not extended
ExceptBranch_Overwrites(all, value) == value

\* lines 224-227: what all_results becomes for the backup's value
ExceptBranch(all, value) ==
    IF value # << >> THEN all \o value ELSE all

\* lines 219-227: the except branch, scrape_curl_cffi(query, proxy_url).  An
\* exception leaving the backup would leave main_async too: pc "aborted".
Backup ==
    /\ pc = "backup"
    /\ \E f \in Fetches :
         LET r == ScrapeCurlCffi(curlAvailable, f)
         IN  /\ backupFetch' = f
             /\ backupValue' = r.value
             /\ IF r.raised
                THEN /\ pc' = "aborted"
                     /\ UNCHANGED << allResults, qi >>
                ELSE /\ allResults' = ExceptBranch(allResults, r.value)
                     /\ qi' = qi + 1
                     /\ pc' = "for"
    /\ backupCalls' = [ backupCalls EXCEPT ![qi] = @ + 1 ]
    /\ UNCHANGED << zVars, anVars, config, open, closeCalls, locals, primOutcome, attempts,
                    written >>

\* lines 230-232: json.dump(all_results, f)
Save ==
    /\ pc = "save"
    /\ written' = written + 1
    /\ pc' = "done"
    /\ UNCHANGED << zVars, anVars, config, open, closeCalls, locals, qi, allResults,
                    primOutcome, backupCalls, backupFetch, backupValue, attempts >>

ScrapeNext ==
    \/ ForNext \/ ForEnd
    \/ Launch \/ NewContext \/ NewPage \/ Route \/ Goto
    \/ WaitForSelector \/ Content \/ CloseEarly
    \/ QueryAll \/ CardStep \/ CardsDone
    \/ Finally \/ PwExit
    \/ Extend \/ Backup \/ Save

vars == << scrapeVars, zVars, anVars >>
Init == ScrapeInit /\ ZIdle /\ AnIdle
Next == ScrapeNext
Spec == Init /\ [][Next]_vars

\* the scrape run is not running
ScrapeIdle ==
    /\ nq = 0 /\ curlAvailable = FALSE /\ maxResults = MaxResultsDefault
    /\ qi = 1 /\ pc = "idle"
    /\ open = {} /\ launched = FALSE /\ closeCalls = 0
    /\ results = << >> /\ pending = "none" /\ cards = << >> /\ ci = 1
    /\ allResults = << >> /\ primOutcome = << >>
    /\ waitTimedOut = FALSE /\ marker = "unread"
    /\ backupCalls = << >> /\ backupFetch = NoFetch /\ backupValue = << >>
    /\ attempts = << >> /\ written = 0

\* scrape_playwright called on its own with any max_results, at the
\* extraction loop of line 96: the page gave any sequence of cards
ExtractInit ==
    /\ nq = 1 /\ curlAvailable = FALSE
    /\ maxResults \in 0 .. MaxCards
    /\ qi = 1 /\ pc = "cards"
    /\ open = { 1 } /\ launched = TRUE /\ closeCalls = 0
    /\ results = << >> /\ pending = "none"
    /\ cards \in SeqsUpTo(CardKinds, MaxCards + 1)
    /\ ci = 1
    /\ allResults = << >> /\ primOutcome = << "running" >>
    /\ waitTimedOut = FALSE /\ marker = "unread"
    /\ backupCalls = << 0 >> /\ backupFetch = NoFetch /\ backupValue = << >>
    /\ attempts = << 1 >> /\ written = 0

\* the extraction loop on its own, up to the return of line 140
InitE == ExtractInit /\ ZIdle /\ AnIdle
NextE == CardStep \/ CardsDone
SpecE == InitE /\ [][NextE]_vars

\* calculate_zscore on its own
InitZ == ScrapeIdle /\ ZInit /\ AnIdle
NextZ == ZCall
SpecZ == InitZ /\ [][NextZ]_vars

\* the analysis run over a data root of at most MaxFiles files
InitA == ScrapeIdle /\ ZIdle /\ AnInit
NextA == WriteSnapshot \/ LoadHistorical \/ AnalyzeSource \/ AnalyzeReturn
SpecA == InitA /\ [][NextA]_vars

(***************************************************************************)
(* Properties of the scrape run (specification Spec).                      *)
(***************************************************************************)
\* main_async is back in control, scrape_playwright is not running
InOrchestrator == pc \in { "for", "extend", "backup", "save", "done" }

IsPrefix(s, t) == Len(s) <= Len(t) /\ SubSeq(t, 1, Len(s)) = s

\* C1: the backup is called for a query if and only if the primary raised
\* for that query: never for a query whose primary returned (an empty
\* result included), never before the primary attempt is over, and once
\* for every query whose primary raised.
C1_BackupIffPrimaryRaised ==
    /\ \A q \in 1 .. nq :
         /\ backupCalls[q] > 0 => primOutcome[q] = "raised"
         /\ primOutcome[q] = "raised" /\ q < qi => backupCalls[q] = 1
         /\ primOutcome[q] = "returned" => backupCalls[q] = 0
    /\ pc = "backup" => primOutcome[qi] = "raised"
    /\ pc = "done" =>
         \A q \in 1 .. nq : backupCalls[q] = 1 <=> primOutcome[q] = "raised"

\* a finished run in which the first primary raised and the second returned
\* the empty sequence
C1_Witness ==
    /\ pc = "done" /\ nq = 2
    /\ primOutcome[1] = "raised" /\ backupCalls[1] = 1
    /\ primOutcome[2] = "returned" /\ results = << >> /\ backupCalls[2] = 0

\* the state part of C2
C2_State ==
    /\ Len(attempts) <= nq
    /\ \A i \in 1 .. Len(attempts) : attempts[i] = i
    /\ pc \in { "save", "done" } => Len(attempts) = nq
    /\ written = (IF pc = "done" THEN 1 ELSE 0)
    /\ pc # "aborted"
    /\ pc # "done" => ENABLED Next

\* C2: whatever the strategies do, the primary is attempted once per
\* configured query, in configured order; the run cannot stop before the
\* batch is written, writes it once, and never drops a listing it has
\* accumulated.
C2_AllQueriesAttemptedBatchWritten ==
    /\ []C2_State
    /\ [][IsPrefix(allResults, allResults')]_vars

\* a finished run: the first query gave listings, the second failed in both
\* strategies, the batch still holds the first query's listings
C2_Witness ==
    /\ pc = "done" /\ nq = 2 /\ written = 1
    /\ primOutcome[1] = "returned" /\ primOutcome[2] = "raised"
    /\ backupCalls[2] = 1
    /\ allResults # << >>

C4_TimeoutEmptyOrRaise ==
    (pc \in { "extend", "backup" } /\ waitTimedOut) =>
        /\ marker = "present" =>
              pc = "extend" /\ results = << >> /\ primOutcome[qi] = "returned"
        /\ marker # "present" =>
              pc = "backup" /\ primOutcome[qi] = "raised"
        /\ marker \in { "present", "absent", "readfail" }

\* the wait timed out, the page showed the marker, and the call has returned
\* the empty sequence to line 218
C4_Witness ==
    /\ pc = "extend" /\ waitTimedOut /\ marker = "present"
    /\ results = << >> /\ backupCalls[qi] = 0

\* C5: scrape_curl_cffi never raises to main_async, whatever the fetch
\* meets, and returns the empty sequence when the status is not 200 or the
\* body holds a block marker.
C5_BackupNeverRaises ==
    /\ pc # "aborted"
    /\ backupFetch # NoFetch =>
          /\ backupFetch \in Fetches
          /\ DOMAIN backupValue = 1 .. Len(backupValue)
          /\ (backupFetch.kind = "response"
               /\ (backupFetch.status # 200
                   \/ backupFetch.body \in { "access_denied", "cloudflare" }))
             => backupValue = << >>

\* the backup met a fetch exception and the run went on to the next query
C5_Witness ==
    /\ pc = "launch" /\ qi = 2 /\ curlAvailable
    /\ backupCalls[1] = 1 /\ backupFetch = FetchException

(***************************************************************************)
(* Properties of calculate_zscore (specification SpecZ).                   *)
(***************************************************************************)
\* the prices calculate_zscore can use: those present and positive
Usable(items) == PositivePrices(items)

\* C7: with fewer than 3 records of positive price in the history,
\* whatever its length, calculate_zscore returns 0.0.
C7_FewUsableIsNeutral ==
    (zpc = "returned" /\ Len(Usable(zItems)) < 3) => zResult = Zero

\* C9: when every usable price of the history is the same value,
\* calculate_zscore returns 0.0.
C9_IdenticalPricesAreNeutral ==
    (zpc = "returned"
     /\ \A i, j \in 1 .. Len(Usable(zItems)) :
           Usable(zItems)[i] = Usable(zItems)[j])
    => zResult = Zero

\* the call of C10: the five prices 100, 110, 90, 105, 95 in any order, and
\* the current price 80
C10_Call ==
    /\ zPrice = 80
    /\ Len(zItems) = 5
    /\ \A i \in 1 .. 5 : zItems[i].has_price
    /\ { zItems[i].price_sgd : i \in 1 .. 5 } = { 100, 110, 90, 105, 95 }

\* C10 as stated: mean 100, sample standard deviation about 8.66, z about
\* -2.31 (each to within 0.01), and the listing is flagged under -1.5.
C10_AsStated ==
    (zpc = "returned" /\ C10_Call) =>
        /\ Mean(Usable(zItems)).num = 100 * Mean(Usable(zItems)).den
        /\ LET s2 == SigmaSquared(Usable(zItems))
           IN  RootHundredths(s2.num, s2.den) \in 865 .. 867
        /\ Round2(zResult) \in -232 .. -230
        /\ Flagged(zResult, DefaultThreshold)

\* C10, amended: mean 100, sample standard deviation 7.91 (the square root
\* of 62.5), z = -2.53 to two decimals, and the listing is flagged under
\* the default threshold -1.5.
C10_SampleStdev ==
    (zpc = "returned" /\ C10_Call) =>
        /\ Mean(Usable(zItems)).num = 100 * Mean(Usable(zItems)).den
        /\ LET s2 == SigmaSquared(Usable(zItems))
           IN  /\ 2 * s2.num = 125 * s2.den
               /\ RootHundredths(s2.num, s2.den) = 791
        /\ Round2(zResult) = -253
        /\ Flagged(zResult, DefaultThreshold)

\* calculate_zscore has returned from the call of C10
C10_Witness == zpc = "returned" /\ C10_Call

(***************************************************************************)
(* Properties of the analysis run (specification SpecA).                   *)
(***************************************************************************)
\* the data root of C6: two files, both under carousell/ with stems inside
\* the lookback window, one holding the listings at 100, 120 and 110, the
\* other, modified last, holding one listing at 60
C6_Scenario ==
    /\ Existing(root) = { 2, 3 }
    /\ \E h, c \in { 2, 3 } :
         /\ h # c
         /\ root[h] = ListOf(Snapshot3("carousell"))
         /\ root[c] = ListOf(<< Item("carousell", 60) >>)
         /\ latest[1] = c

\* C6: on that data root analyze_deals returns exactly one Deal, and its
\* z_score is -5.0.
C6_EndToEnd ==
    (anpc = "done" /\ C6_Scenario) =>
        Len(deals) = 1 /\ deals[1].z_score = -500

\* the records of a history that have a positive price
UsableOnly(items) ==
    SelectSeq(items, LAMBDA h : h.has_price /\ h.price_sgd > 0)

\* C8: a listing without a positive price takes no part in the statistics:
\* every score is the score against the history without such records, no
\* such listing of the current snapshot is scored, and none is a Deal.
C8_NonPositiveNeverParticipates ==
    /\ \A k \in 1 .. Len(scored) :
         /\ ~Skipped(scored[k].item)
         /\ scored[k].z = CalculateZscore(UsableOnly(scored[k].history),
                                          scored[k].item.price_sgd)
    /\ \A k \in 1 .. Len(deals) : ~Skipped(deals[k].item)

\* the listings of a snapshot that analyze_deals scores: those with a
\* positive price, in file order
Priced(items) ==
    SelectSeq(items, LAMBDA it : it.has_price /\ it.price_sgd > 0)

\* the listings analyze_deals has to score for the sources 1 .. k
RECURSIVE CurrentListings(_)
CurrentListings(k) ==
    IF k = 0 THEN << >>
    ELSE CurrentListings(k - 1)
         \o (IF latest[k] # 0 /\ root[latest[k]].kind \in { "list", "object" }
             THEN Priced(root[latest[k]].items) ELSE << >>)

\* the scored calls whose score is strictly below the threshold
BelowThreshold(calls) ==
    SelectSeq(calls, LAMBDA c : ZLess(c.z, DefaultThreshold))

\* C11: a listing of the current snapshot with a positive price is among the
\* returned Deals if and only if its score against the history of its own
\* source is strictly below the threshold -1.5; a score equal to the
\* threshold, or 0.0, is not returned; every Deal carries z_score and flag.
C11_DealIffBelowThreshold ==
    /\ \A k \in 1 .. Len(scored) :
         /\ scored[k].history = SourceHistory(allItems, scored[k].item.source)
         /\ scored[k].z = CalculateZscore(scored[k].history,
                                          scored[k].item.price_sgd)
    /\ anpc \in { "sources", "done" } =>
         LET current == CurrentListings(si - 1)
         IN  /\ Len(scored) = Len(current)
             /\ \A k \in 1 .. Len(scored) : scored[k].item = current[k]
    /\ LET below == BelowThreshold(scored)
       IN  /\ Len(deals) = Len(below)
           /\ \A k \in 1 .. Len(deals) :
                /\ deals[k].item = below[k].item
                /\ deals[k].z_score = Round2(below[k].z)
                /\ { "z_score", "flag" } \subseteq DOMAIN deals[k]
                /\ deals[k].z_score <= -150
                /\ below[k].z # Zero
                /\ below[k].z # DefaultThreshold

\* analyze_deals has returned; one listing scored exactly -1.5 (60 against
\* 100, 100, 100, 60) and is not among the Deals
C11_Witness ==
    /\ anpc = "done"
    /\ \E k \in 1 .. Len(scored) :
         /\ scored[k].z = DefaultThreshold
         /\ scored[k].item.price_sgd = 60
         /\ \A d \in 1 .. Len(deals) : deals[d].item # scored[k].item

\* the stem is a timestamp of the closed window [now - lookback, now]
InWindow(stem, lookback) ==
    stem.parses /\ -lookback <= stem.day /\ stem.day <= 0

\* what the files under the root whose stem is in the window hold, from
\* path number i on
RECURSIVE WindowPool(_)
WindowPool(i) ==
    IF i > Len(Paths) THEN << >>
    ELSE (IF InWindow(Paths[i].stem, LookbackDays) THEN root[i].items
          ELSE << >>) \o WindowPool(i + 1)

\* load_historical_data has returned
Loaded == anpc \in { "sources", "done", "raised" }

\* C12: the historical pool holds the listings of the files whose filename
\* timestamp lies in [now - lookback_days, now] and of no other file: a file
\* stamped before now - lookback_days or after now contributes no listing.
C12_OnlyFilesInWindow ==
    Loaded => allItems = WindowPool(1)

\* the data root without the files whose name is no timestamp
WithoutBadStems ==
    [ i \in PathIds |-> IF Paths[i].stem.parses THEN root[i] ELSE Absent ]

\* C13: a file whose name does not parse as a timestamp is passed over by
\* load_historical_data: the call returns, and the pool, and with it every
\* source baseline, is the pool of the same data root without that file, so
\* the files before and after it are loaded as if it were not there.
C13_BadStemSkipped ==
    /\ anpc = "setup" => ENABLED LoadHistorical
    /\ Loaded =>
         LET pool == LoadHistoricalData(WithoutBadStems, LookbackDays)
         IN  /\ allItems = pool
             /\ \A k \in 1 .. Len(scored) :
                  scored[k].history = SourceHistory(pool, scored[k].item.source)

\* the load has returned: two files with listings, one named without a
\* timestamp, and the pool is the other file's listings
C13_Witness ==
    /\ Loaded
    /\ root[4].kind = "list" /\ root[4].items # << >>
    /\ \E i \in { 2, 3 } :
         /\ root[i].kind = "list" /\ root[i].items # << >>
         /\ allItems = root[i].items

\* C14: a file with a conforming, in-window name whose content is no valid
\* snapshot (unparseable, or JSON that is no list of records) adds nothing
\* to the historical pool, and analyze_deals does not raise because of it.
C14_InvalidContentSkipped ==
    /\ anpc # "raised"
    /\ Loaded => \A k \in 1 .. Len(allItems) : allItems[k] # NotARecord

\* C15: for a history of at least 3 records of which exactly one has a
\* positive price p, calculate_zscore takes sigma = 1.0 and returns
\* current_price - p, not 0.0; a current price more than 1.5 below p is
\* flagged under the default threshold.
C15_SingleUsablePrice ==
    (zpc = "returned" /\ Len(zItems) >= 3 /\ Len(Usable(zItems)) = 1) =>
        LET p == Usable(zItems)[1]
        IN  /\ SigmaSquared(Usable(zItems)) = [ num |-> 1, den |-> 1 ]
            /\ zResult = Score(Sign(zPrice - p), (zPrice - p) * (zPrice - p), 1)
            /\ Round2(zResult) = 100 * (zPrice - p)
            /\ zPrice # p => zResult # Zero
            /\ 2 * (zPrice - p) < -3 => Flagged(zResult, DefaultThreshold)

\* calculate_zscore has returned -50.0 for the current price 50 and three
\* records, one at 100 and two without a positive price
C15_Witness ==
    /\ zpc = "returned" /\ zPrice = 50
    /\ Len(zItems) = 3 /\ Usable(zItems) = << 100 >>
    /\ Round2(zResult) = -5000
    /\ Flagged(zResult, DefaultThreshold)

(***************************************************************************)
(* Properties of the extraction loop (specification SpecE).                *)
(***************************************************************************)
\* the listings of the first n cards of cs, in card order: one for every
\* card with title, price and link whose reads succeed
RECURSIVE ListingsOf(_, _, _)
ListingsOf(cs, n, q) ==
    IF n = 0 THEN << >>
    ELSE LET before == ListingsOf(cs, n - 1, q)
         IN  IF cs[n] \in { "full", "noseller" }
             THEN Append(before,
                         [ query |-> q, card |-> n,
                           seller |-> IF cs[n] = "noseller" THEN "Unknown"
                                      ELSE "named",
                           source |-> "carousell", method |-> "playwright" ])
             ELSE before

\* the number of cards considered: the first max_results of them
Considered == IF Len(cards) <= maxResults THEN Len(cards) ELSE maxResults

\* C16: the loop considers the first max_results cards only; a card that
\* lacks title, price or link, or whose extraction raises, adds no listing
\* and neither stops the loop nor fails the call; every other considered
\* card adds one listing, in card order, with seller "Unknown" when the
\* seller element is absent; the result has at most max_results listings.
C16_ExtractionLoop ==
    /\ pc = "cards" =>
         /\ ci - 1 <= Considered
         /\ results = ListingsOf(cards, ci - 1, qi)
         /\ pending = "none"
    /\ pc = "finally" =>
         /\ pending = "return"
         /\ results = ListingsOf(cards, Considered, qi)
         /\ Len(results) <= maxResults

\* the loop is over with max_results = 2 and three cards: the first raised,
\* the second had no seller element, the third was not considered
C16_Witness ==
    /\ pc = "finally" /\ pending = "return"
    /\ maxResults = 2 /\ cards = << "raises", "noseller", "full" >>
    /\ Len(results) = 1 /\ results[1].card = 2 /\ results[1].seller = "Unknown"

(***************************************************************************)
(* More properties of the scrape run (specification Spec).                 *)
(***************************************************************************)
\* C17: the session launched by a call of scrape_playwright is closed
\* exactly once: browser.close() is issued one time on every way out,
\* never twice, never on a session that is closed already.
C17_ClosedExactlyOnce ==
    /\ closeCalls <= 1
    /\ (pc \in { "extend", "backup" } /\ launched) => closeCalls = 1

\* the listings of query q in the batch
BatchOf(q) == SelectSeq(allResults, LAMBDA l : l.query = q)

C19_State ==
    /\ backupValue = << >>
    /\ \A k \in 1 .. Len(allResults) :
         /\ allResults[k].method = "playwright"
         /\ primOutcome[allResults[k].query] # "raised"

\* C19: scrape_curl_cffi returns the empty sequence on every path, a
\* status-200 fetch without block marker included; so the except branch
\* leaves the batch as it was, a query whose primary raised contributes no
\* listing, and every listing of the batch has method "playwright".
C19_BackupAlwaysEmpty ==
    /\ []C19_State
    /\ [][pc = "backup" => allResults' = allResults]_vars

\* the batch is written with a listing in it, after a backup call that
\* fetched a page with status 200 and no block marker and returned nothing
C19_Witness ==
    /\ pc = "done" /\ curlAvailable
    /\ backupFetch = [ kind |-> "response", status |-> 200, body |-> "page" ]
    /\ backupValue = << >>
    /\ allResults # << >>

=============================================================================
